---- MODULE Spec2Model ----
(***************************************************************************)
(* Model of generate_quadratic_residues.py: for each modulus of a fixed    *)
(* tuple, build the set of x*x % m for x in range(m // 2 + 1), store it in *)
(* the dict quadratic_residues under key m, and print one line holding the *)
(* modulus and the sorted set.                                             *)
(*                                                                         *)
(* The set(...) call over the generator expression is modelled element by  *)
(* element: the generator's range position x and the set under            *)
(* construction acc are state.                                             *)
(***************************************************************************)
EXTENDS Integers, Sequences, FiniteSets

VARIABLES moduli, quadratic_residues, pc, i, m, x, acc, out

vars == <<moduli, quadratic_residues, pc, i, m, x, acc, out>>

(* Bounds of the generalised specification (SpecGen) only. *)
MaxLen == 3
MaxM == 5

----------------------------------------------------------------------------
(* Program constants and pure helpers *)

moduli_tuple_swapped == <<9, 256, 5, 7, 13, 17, 97, 241, 257, 673>>

moduli_tuple_zero == <<256, 9, 5, 7, 13, 17, 97, 241, 257, 0>>

(* line 6: the tuple literal *)
moduli_tuple == <<256, 9, 5, 7, 13, 17, 97, 241, 257, 673>>

range_stop_short(mm) == mm \div 2

(* line 10: range(m // 2 + 1) yields 0 .. range_stop(m) - 1 *)
range_stop(mm) == mm \div 2 + 1

residue_nomod(xx, mm) == xx * xx

residue_double(xx, mm) == (xx * 2) % mm

residue_cube(xx, mm) == (xx * xx * xx) % mm

(* line 10: the element expression (x * x) % m, for m > 0 *)
residue(xx, mm) == (xx * xx) % mm

(* line 7: the empty dict *)
EmptyDict == [k \in {} |-> {}]

DictSetClobber(d, k, v) == [kk \in (DOMAIN d) \cup {k} |-> v]

(* line 10: quadratic_residues[m] = value *)
DictSet(d, k, v) == [kk \in (DOMAIN d) \cup {k} |-> IF kk = k THEN v ELSE d[kk]]

sorted_desc(S) ==
    [k \in 1..Cardinality(S) |-> CHOOSE v \in S : Cardinality({w \in S : w >= v}) = k]

(* line 11: sorted(set) - the elements as a list in ascending order: the *)
(* k-th place holds the element of rank k (k elements are <= it)         *)
sorted(S) ==
    [k \in 1..Cardinality(S) |-> CHOOSE v \in S : Cardinality({w \in S : w <= v}) = k]

(* line 11: the f-string; a line is the modulus and the rendered list *)
format_line(mm, lst) == [m |-> mm, list |-> lst]

----------------------------------------------------------------------------
(* State machine *)

TypeOK ==
    /\ pc \in {"for", "set", "gen", "store", "print", "done", "error"}
    /\ i \in 0..Len(moduli)
    /\ x \in Nat
    /\ acc \subseteq Nat

(* lines 6-7: state when the for statement is first reached *)
Init ==
    /\ moduli = moduli_tuple
    /\ quadratic_residues = EmptyDict
    /\ pc = "for"
    /\ i = 0
    /\ m = 0
    /\ x = 0
    /\ acc = {}
    /\ out = <<>>

(* line 9: the for statement binds the next modulus *)
ForNext ==
    /\ pc = "for"
    /\ i < Len(moduli)
    /\ i' = i + 1
    /\ m' = moduli[i + 1]
    /\ pc' = "set"
    /\ UNCHANGED <<moduli, quadratic_residues, x, acc, out>>

(* line 9: the tuple is exhausted; the script ends *)
ForExit ==
    /\ pc = "for"
    /\ i >= Len(moduli)
    /\ pc' = "done"
    /\ UNCHANGED <<moduli, quadratic_residues, i, m, x, acc, out>>

SetBeginStale ==
    /\ pc = "set"
    /\ x' = 0
    /\ pc' = "gen"
    /\ UNCHANGED <<moduli, quadratic_residues, i, m, acc, out>>

(* line 10: set(...) starts from a new empty set; range starts at 0 *)
SetBegin ==
    /\ pc = "set"
    /\ acc' = {}
    /\ x' = 0
    /\ pc' = "gen"
    /\ UNCHANGED <<moduli, quadratic_residues, i, m, out>>

(* line 10: the generator yields (x * x) % m for the next x of the range; *)
(* a zero modulus raises ZeroDivisionError and ends the script            *)
GenYield ==
    /\ pc = "gen"
    /\ x < range_stop(m)
    /\ IF m = 0
       THEN /\ pc' = "error"
            /\ UNCHANGED <<x, acc>>
       ELSE /\ acc' = acc \cup {residue(x, m)}
            /\ x' = x + 1
            /\ pc' = "gen"
    /\ UNCHANGED <<moduli, quadratic_residues, i, m, out>>

(* line 10: the range is exhausted; set(...) returns *)
GenExhausted ==
    /\ pc = "gen"
    /\ x >= range_stop(m)
    /\ pc' = "store"
    /\ UNCHANGED <<moduli, quadratic_residues, i, m, x, acc, out>>

(* line 10: the assignment to quadratic_residues[m] *)
Store ==
    /\ pc = "store"
    /\ quadratic_residues' = DictSet(quadratic_residues, m, acc)
    /\ pc' = "print"
    /\ UNCHANGED <<moduli, i, m, x, acc, out>>

(* line 11: print the line for m, read back from the dict *)
PrintLine ==
    /\ pc = "print"
    /\ out' = Append(out, format_line(m, sorted(quadratic_residues[m])))
    /\ pc' = "for"
    /\ UNCHANGED <<moduli, quadratic_residues, i, m, x, acc>>

Next ==
    \/ ForNext
    \/ ForExit
    \/ SetBegin
    \/ GenYield
    \/ GenExhausted
    \/ Store
    \/ PrintLine

Spec == Init /\ [][Next]_vars

(* The interpreter always executes the next statement. *)
FairSpec == Init /\ [][Next]_vars /\ WF_vars(Next)

(* The same script over an arbitrary short tuple of small moduli, zero *)
(* and repeated moduli included.                                       *)
InitGen ==
    /\ moduli \in UNION {[1..n -> 0..MaxM] : n \in 1..MaxLen}
    /\ quadratic_residues = EmptyDict
    /\ pc = "for"
    /\ i = 0
    /\ m = 0
    /\ x = 0
    /\ acc = {}
    /\ out = <<>>

SpecGen == InitGen /\ [][Next]_vars

----------------------------------------------------------------------------
(* Properties *)

Keys == DOMAIN quadratic_residues

DeclaredOrder == <<256, 9, 5, 7, 13, 17, 97, 241, 257, 673>>

OddPrimes == {5, 7, 13, 17, 97, 241, 257, 673}

Elems(lst) == {lst[j] : j \in 1..Len(lst)}

(* C1: every stored set, built from x in 0..floor(m/2) only, equals the   *)
(* full-range set of squares: r is stored under m iff some x with         *)
(* 0 <= x < m has (x*x) mod m = r.                                        *)
C1_FullRangeEquivalence ==
    \A k \in Keys :
        /\ k \in Elems(DeclaredOrder)
        /\ quadratic_residues[k] = {(xx * xx) % k : xx \in 0..(k - 1)}

C1_Witness == pc = "done" /\ Keys = Elems(DeclaredOrder)

(* C2: the sets stored for 5, 7, 9 and 13 are exactly {0,1,4},            *)
(* {0,1,2,4}, {0,1,4,7} and {0,1,3,4,9,10,12}.                            *)
C2_SmallModuli ==
    /\ 5 \in Keys => quadratic_residues[5] = {0, 1, 4}
    /\ 7 \in Keys => quadratic_residues[7] = {0, 1, 2, 4}
    /\ 9 \in Keys => quadratic_residues[9] = {0, 1, 4, 7}
    /\ 13 \in Keys => quadratic_residues[13] = {0, 1, 3, 4, 9, 10, 12}

C2_Witness == {5, 7, 9, 13} \subseteq Keys

(* C3 (as amended): the set stored for modulus 256 has exactly 44         *)
(* elements.                                                              *)
C3_Size44 ==
    256 \in Keys => Cardinality(quadratic_residues[256]) = 44

C3_Witness == 256 \in Keys /\ 0 \in quadratic_residues[256]

(* C3 (as stated): the set stored for modulus 256 has exactly 65         *)
(* elements.                                                              *)
C3_Size65 ==
    256 \in Keys => Cardinality(quadratic_residues[256]) = 65

(* C4: at every point of the run every element r of every set stored      *)
(* under key m satisfies 0 <= r < m.                                      *)
C4_ElementsInRange ==
    \A k \in Keys : \A r \in quadratic_residues[k] : 0 <= r /\ r < k

C4_Witness == \E k \in Keys : k > 1 /\ (k - 1) \in quadratic_residues[k]

(* C5: the printed lines name the moduli in declared order, line j being  *)
(* for the j-th modulus, and a complete run has printed exactly ten       *)
(* lines.                                                                 *)
C5_OutputOrder ==
    /\ Len(out) <= 10
    /\ \A j \in 1..Len(out) : out[j].m = DeclaredOrder[j]
    /\ pc = "done" => Len(out) = 10

C5_Witness == pc = "done" /\ Len(out) = 10 /\ out[1].m = 256

(* C6: the set computed for a modulus depends on the modulus alone: any   *)
(* two printed computations for the same modulus hold the same set,       *)
(* whatever was stored or processed in between, and the entry stored last *)
(* for a modulus agrees with every line printed for it.                   *)
C6_PureFunction ==
    /\ \A j, k \in 1..Len(out) :
           out[j].m = out[k].m => Elems(out[j].list) = Elems(out[k].list)
    /\ \A j \in 1..Len(out) :
           out[j].m \in Keys /\ Elems(out[j].list) = quadratic_residues[out[j].m]

C6_Witness ==
    \E j, k, l \in 1..Len(out) :
        /\ j < k /\ k < l
        /\ out[j].m = out[l].m
        /\ out[k].m # out[j].m
        /\ Elems(out[k].list) # Elems(out[j].list)

(* C7: the table starts empty and gains one entry per iteration in list   *)
(* order: its keys are exactly the moduli of the completed iterations,    *)
(* an entry is stored before its line is printed, an iteration adds only  *)
(* the current modulus and changes no stored entry, and the table has ten *)
(* keys at termination.                                                   *)
C7_StoredCount == IF pc \in {"set", "gen", "store"} THEN i - 1 ELSE i

C7_TableState ==
    /\ Keys = {DeclaredOrder[j] : j \in 1..C7_StoredCount}
    /\ Cardinality(Keys) = C7_StoredCount
    /\ \A j \in 1..Len(out) : out[j].m \in Keys
    /\ Len(out) = IF pc = "print" THEN C7_StoredCount - 1 ELSE C7_StoredCount
    /\ pc = "done" => Cardinality(Keys) = 10

C7_TableStep ==
    /\ \A k \in Keys :
           /\ k \in DOMAIN quadratic_residues'
           /\ quadratic_residues'[k] = quadratic_residues[k]
    /\ (DOMAIN quadratic_residues') \ Keys \subseteq {m}
    /\ Cardinality(DOMAIN quadratic_residues') <= Cardinality(Keys) + 1

C7_TablePopulation == [](C7_TableState) /\ [][C7_TableStep]_vars

C7_Witness == pc = "print" /\ i = 10 /\ Cardinality(Keys) = 10 /\ Len(out) = 9

(* C8: the list of every printed line is strictly increasing and holds    *)
(* exactly the elements of the set stored for its modulus, so its length  *)
(* is the set's cardinality.                                              *)
C8_SortedLine ==
    \A j \in 1..Len(out) :
        LET lst == out[j].list
            k == out[j].m
        IN  /\ \A a \in 1..(Len(lst) - 1) : lst[a] < lst[a + 1]
            /\ k \in Keys
            /\ Elems(lst) = quadratic_residues[k]
            /\ Len(lst) = Cardinality(quadratic_residues[k])

C8_Witness == Len(out) = 10 /\ Len(out[10].list) = 337

(* C9: the run always terminates, never reaches the failure state, and    *)
(* is in its terminal state only after the line for 673 was printed.      *)
C9_Terminates ==
    /\ <>(pc = "done")
    /\ [](pc # "error")
    /\ [](pc = "done" => Len(out) > 0 /\ out[Len(out)].m = 673)

C9_Witness == pc = "done" /\ Len(out) > 0 /\ out[Len(out)].m = 673

(* C10: for every odd prime modulus of the list the stored set has        *)
(* exactly (m + 1) / 2 elements, and every stored set contains 0 and 1.   *)
C10_PrimeCounts ==
    \A k \in Keys :
        /\ k \in OddPrimes => Cardinality(quadratic_residues[k]) * 2 = k + 1
        /\ 0 \in quadratic_residues[k]
        /\ 1 \in quadratic_residues[k]

C10_Witness == OddPrimes \subseteq Keys /\ 256 \in Keys /\ 9 \in Keys

====
